---------------------------- MODULE Spec2Model ----------------------------
(***************************************************************************)
(* Spanish verb conjugation quiz (SpConj): the conjugation resolver of     *)
(* conjugation_utils.py, its formatting helpers, and the answer check of   *)
(* main.py, as a state machine over the static tables of verb_data.        *)
(*                                                                         *)
(* Strings are TLA+ strings; Len, SubSeq and \o act on them character by    *)
(* character, as Python's len, slicing and + do.                            *)
(***************************************************************************)
EXTENDS Integers, Sequences, FiniteSets, TLC

VARIABLES
    verb_data,      \* the module verb_data: one field per imported table
    tense_markers,  \* the module-level dict TENSE_MARKERS
    last            \* the most recent completed call: who, what, with what outcome

vars == <<verb_data, tense_markers, last>>

tables == <<verb_data, tense_markers>>

-----------------------------------------------------------------------------
(* Bounds of the exploration                                               *)

\* callers that may issue calls, in any order
NumCallers == 2

\* longest run of blanks put around a submitted answer
MaxPad == 1

Callers == 1..NumCallers

-----------------------------------------------------------------------------
(* Sequence and dict helpers                                               *)

Range(s) == {s[i] : i \in 1..Len(s)}

\* Python's `k in d` for a dict d
HasKey(d, k) == k \in DOMAIN d

\* a dict with one value per person, in the order Yo, Tú, Nosotros
Forms(yo, tu, nosotros) == ("Yo" :> yo) @@ ("Tú" :> tu) @@ ("Nosotros" :> nosotros)

-----------------------------------------------------------------------------
(* The static tables of verb_data                                          *)

VD_REGULAR_VERBS_AR == <<"hablar">>

VD_REGULAR_VERBS_ER == <<"deber">>

VD_REGULAR_VERBS_IR == <<"vivir">>

VD_REGULAR_VERBS == VD_REGULAR_VERBS_AR \o VD_REGULAR_VERBS_ER \o VD_REGULAR_VERBS_IR

VD_IRREGULAR_VERBS == <<"ir", "tener">>

VD_ALL_VERBS == VD_REGULAR_VERBS \o VD_IRREGULAR_VERBS

VD_TENSES == <<"present", "preterite", "imperfect", "future", "conditional", "subjunctive">>

VD_PERSONS == <<"Yo", "Tú", "Nosotros">>

VD_REGULAR_ENDINGS_AR ==
    [present     |-> Forms("o", "as", "amos"),
     preterite   |-> Forms("é", "aste", "amos"),
     imperfect   |-> Forms("aba", "abas", "ábamos"),
     future      |-> Forms("é", "ás", "emos"),
     conditional |-> Forms("ía", "ías", "íamos"),
     subjunctive |-> Forms("e", "es", "emos")]

VD_REGULAR_ENDINGS_ER ==
    [present     |-> Forms("o", "es", "emos"),
     preterite   |-> Forms("í", "iste", "imos"),
     imperfect   |-> Forms("ía", "ías", "íamos"),
     future      |-> Forms("é", "ás", "emos"),
     conditional |-> Forms("ía", "ías", "íamos"),
     subjunctive |-> Forms("a", "as", "amos")]

VD_REGULAR_ENDINGS_IR ==
    [present     |-> Forms("o", "es", "imos"),
     preterite   |-> Forms("í", "iste", "imos"),
     imperfect   |-> Forms("ía", "ías", "íamos"),
     future      |-> Forms("é", "ás", "emos"),
     conditional |-> Forms("ía", "ías", "íamos"),
     subjunctive |-> Forms("a", "as", "amos")]

\* sparse: only the overridden (tense, person) cells are present
VD_IRREGULAR_OVERRIDES ==
    [ir    |-> [present     |-> Forms("voy", "vas", "vamos"),
                preterite   |-> Forms("fui", "fuiste", "fuimos"),
                imperfect   |-> Forms("iba", "ibas", "íbamos"),
                subjunctive |-> Forms("vaya", "vayas", "vayamos")],
     tener |-> [present     |-> ("Yo" :> "tengo") @@ ("Tú" :> "tienes"),
                preterite   |-> Forms("tuve", "tuviste", "tuvimos"),
                future      |-> Forms("tendré", "tendrás", "tendremos"),
                conditional |-> Forms("tendría", "tendrías", "tendríamos"),
                subjunctive |-> Forms("tenga", "tengas", "tengamos")]]

VerbData ==
    [ALL_VERBS           |-> VD_ALL_VERBS,
     IRREGULAR_OVERRIDES |-> VD_IRREGULAR_OVERRIDES,
     IRREGULAR_VERBS     |-> VD_IRREGULAR_VERBS,
     PERSONS             |-> VD_PERSONS,
     REGULAR_ENDINGS_AR  |-> VD_REGULAR_ENDINGS_AR,
     REGULAR_ENDINGS_ER  |-> VD_REGULAR_ENDINGS_ER,
     REGULAR_ENDINGS_IR  |-> VD_REGULAR_ENDINGS_IR,
     REGULAR_VERBS       |-> VD_REGULAR_VERBS,
     REGULAR_VERBS_AR    |-> VD_REGULAR_VERBS_AR,
     REGULAR_VERBS_ER    |-> VD_REGULAR_VERBS_ER,
     REGULAR_VERBS_IR    |-> VD_REGULAR_VERBS_IR,
     TENSES              |-> VD_TENSES]

\* the names conjugation_utils.py and main.py import, read from the module's state
ALL_VERBS == verb_data.ALL_VERBS

IRREGULAR_OVERRIDES == verb_data.IRREGULAR_OVERRIDES

IRREGULAR_VERBS == verb_data.IRREGULAR_VERBS

PERSONS == verb_data.PERSONS

REGULAR_ENDINGS_AR == verb_data.REGULAR_ENDINGS_AR

REGULAR_ENDINGS_ER == verb_data.REGULAR_ENDINGS_ER

REGULAR_ENDINGS_IR == verb_data.REGULAR_ENDINGS_IR

REGULAR_VERBS == verb_data.REGULAR_VERBS

TENSES == verb_data.TENSES

TENSE_MARKERS ==
    [present     |-> "ahora",
     preterite   |-> "ayer",
     imperfect   |-> "cuando",
     future      |-> "mañana",
     conditional |-> "si...",
     subjunctive |-> "espero que"]

-----------------------------------------------------------------------------
(* Outcomes of a call: a returned value or a raised exception. A raised     *)
(* ValueError carries the head of its message, which names the kind and    *)
(* the offending value; the tail listing the valid values is left out.     *)

Return(v) == [exc |-> "none", val |-> v]

Raise(e, msg) == [exc |-> e, val |-> msg]

Raised(o) == o.exc # "none"

\* d[k] of a Python dict: the value, or KeyError
Subscript(d, k) == IF HasKey(d, k) THEN Return(d[k]) ELSE Raise("KeyError", k)

-----------------------------------------------------------------------------
(* conjugation_utils.py                                                    *)

\* verb[-2:]
get_infinitive_ending(verb) ==
    SubSeq(verb, IF Len(verb) > 2 THEN Len(verb) - 1 ELSE 1, Len(verb))

\* verb[:-2]
get_stem(verb) == SubSeq(verb, 1, Len(verb) - 2)

is_irregular(verb) == verb \in Range(IRREGULAR_VERBS)

\* base + endings[tense][person], the subscripts raising KeyError when absent
Suffixed(base, endings, tense, person) ==
    LET row == Subscript(endings, tense)
    IN  IF Raised(row) THEN row
        ELSE LET cell == Subscript(row.val, person)
             IN  IF Raised(cell) THEN cell ELSE Return(base \o cell.val)

UnknownEnding(ending) == Raise("ValueError", "Unknown verb ending: " \o ending)

\* conjugate_regular, were the stem used for every tense
conjugate_regular_stem_always(verb, tense, person) ==
    IF tense \notin Range(TENSES)
    THEN Raise("ValueError", "Unknown tense: " \o tense)
    ELSE IF person \notin Range(PERSONS)
    THEN Raise("ValueError", "Unknown person: " \o person)
    ELSE LET ending == get_infinitive_ending(verb)
             stem == get_stem(verb)
         IN  CASE ending = "ar" -> Suffixed(stem, REGULAR_ENDINGS_AR, tense, person)
               [] ending = "er" -> Suffixed(stem, REGULAR_ENDINGS_ER, tense, person)
               [] ending = "ir" -> Suffixed(stem, REGULAR_ENDINGS_IR, tense, person)
               [] OTHER -> UnknownEnding(ending)

\* conjugate_regular, were only the -er rules implemented
conjugate_regular_er_only(verb, tense, person) ==
    IF tense \notin Range(TENSES)
    THEN Raise("ValueError", "Unknown tense: " \o tense)
    ELSE IF person \notin Range(PERSONS)
    THEN Raise("ValueError", "Unknown person: " \o person)
    ELSE LET ending == get_infinitive_ending(verb)
             base == IF tense \in {"future", "conditional"} THEN verb ELSE get_stem(verb)
         IN  IF ending = "er"
             THEN Suffixed(base, REGULAR_ENDINGS_ER, tense, person)
             ELSE UnknownEnding(ending)

\* conjugate_regular, were the person validated before the tense
conjugate_regular_person_first(verb, tense, person) ==
    IF person \notin Range(PERSONS)
    THEN Raise("ValueError", "Unknown person: " \o person)
    ELSE IF tense \notin Range(TENSES)
    THEN Raise("ValueError", "Unknown tense: " \o tense)
    ELSE LET ending == get_infinitive_ending(verb)
             base == IF tense \in {"future", "conditional"} THEN verb ELSE get_stem(verb)
         IN  CASE ending = "ar" -> Suffixed(base, REGULAR_ENDINGS_AR, tense, person)
               [] ending = "er" -> Suffixed(base, REGULAR_ENDINGS_ER, tense, person)
               [] ending = "ir" -> Suffixed(base, REGULAR_ENDINGS_IR, tense, person)
               [] OTHER -> UnknownEnding(ending)

conjugate_regular(verb, tense, person) ==
    IF tense \notin Range(TENSES)
    THEN Raise("ValueError", "Unknown tense: " \o tense)
    ELSE IF person \notin Range(PERSONS)
    THEN Raise("ValueError", "Unknown person: " \o person)
    ELSE LET ending == get_infinitive_ending(verb)
         IN  IF tense \in {"future", "conditional"}
             THEN CASE ending = "ar" -> Suffixed(verb, REGULAR_ENDINGS_AR, tense, person)
                    [] ending = "er" -> Suffixed(verb, REGULAR_ENDINGS_ER, tense, person)
                    [] ending = "ir" -> Suffixed(verb, REGULAR_ENDINGS_IR, tense, person)
                    [] OTHER -> UnknownEnding(ending)
             ELSE LET stem == get_stem(verb)
                  IN  CASE ending = "ar" -> Suffixed(stem, REGULAR_ENDINGS_AR, tense, person)
                        [] ending = "er" -> Suffixed(stem, REGULAR_ENDINGS_ER, tense, person)
                        [] ending = "ir" -> Suffixed(stem, REGULAR_ENDINGS_IR, tense, person)
                        [] OTHER -> UnknownEnding(ending)

\* conjugate, were the override table never consulted
conjugate_ignoring_overrides(verb, tense, person) ==
    IF verb \notin Range(ALL_VERBS)
    THEN Raise("ValueError", "Unknown verb: " \o verb)
    ELSE conjugate_regular(verb, tense, person)

\* conjugate, were the verb not validated
conjugate_unvalidated(verb, tense, person) ==
    IF /\ HasKey(IRREGULAR_OVERRIDES, verb)
       /\ HasKey(IRREGULAR_OVERRIDES[verb], tense)
       /\ HasKey(IRREGULAR_OVERRIDES[verb][tense], person)
    THEN Return(IRREGULAR_OVERRIDES[verb][tense][person])
    ELSE conjugate_regular(verb, tense, person)

conjugate(verb, tense, person) ==
    IF verb \notin Range(ALL_VERBS)
    THEN Raise("ValueError", "Unknown verb: " \o verb)
    ELSE IF /\ HasKey(IRREGULAR_OVERRIDES, verb)
            /\ HasKey(IRREGULAR_OVERRIDES[verb], tense)
            /\ HasKey(IRREGULAR_OVERRIDES[verb][tense], person)
    THEN Return(IRREGULAR_OVERRIDES[verb][tense][person])
    ELSE conjugate_regular(verb, tense, person)

\* {person: conjugate(verb, tense, person) for person in PERSONS}, built in the
\* order of PERSONS from entry i on; the first raising call ends the comprehension
RECURSIVE TableFrom(_, _, _, _)
TableFrom(verb, tense, i, acc) ==
    IF i > Len(PERSONS) THEN Return(acc)
    ELSE LET o == conjugate(verb, tense, PERSONS[i])
         IN  IF Raised(o) THEN o
             ELSE TableFrom(verb, tense, i + 1, (PERSONS[i] :> o.val) @@ acc)

\* the comprehension, were a raising call skipped instead of propagated
RECURSIVE TableSkipping(_, _, _, _)
TableSkipping(verb, tense, i, acc) ==
    IF i > Len(PERSONS) THEN Return(acc)
    ELSE LET o == conjugate(verb, tense, PERSONS[i])
         IN  TableSkipping(verb, tense, i + 1,
                           IF Raised(o) THEN acc ELSE (PERSONS[i] :> o.val) @@ acc)

get_conjugation_table_skipping(verb, tense) == TableSkipping(verb, tense, 1, <<>>)

get_conjugation_table(verb, tense) == TableFrom(verb, tense, 1, <<>>)

-----------------------------------------------------------------------------
(* str.lower and str.strip, over the characters Spanish text uses          *)

UpperChars == "ABCDEFGHIJKLMNOPQRSTUVWXYZÁÉÍÓÚÜÑ"

LowerChars == "abcdefghijklmnopqrstuvwxyzáéíóúüñ"

Char(s, i) == SubSeq(s, i, i)

LowerChar(c) ==
    IF \E i \in 1..Len(UpperChars) : Char(UpperChars, i) = c
    THEN Char(LowerChars, CHOOSE i \in 1..Len(UpperChars) : Char(UpperChars, i) = c)
    ELSE c

RECURSIVE lower(_)
lower(s) == IF s = "" THEN "" ELSE LowerChar(Char(s, 1)) \o lower(Tail(s))

Whitespace == {" ", "\t", "\n", "\r"}

RECURSIVE lstrip(_)
lstrip(s) == IF s # "" /\ Char(s, 1) \in Whitespace THEN lstrip(Tail(s)) ELSE s

RECURSIVE rstrip(_)
rstrip(s) ==
    IF s # "" /\ Char(s, Len(s)) \in Whitespace
    THEN rstrip(SubSeq(s, 1, Len(s) - 1))
    ELSE s

strip(s) == rstrip(lstrip(s))

-----------------------------------------------------------------------------
(* Formatting helpers                                                      *)

\* TENSE_MARKERS.get(tense, "")
MarkerOf(tense) == IF HasKey(tense_markers, tense) THEN tense_markers[tense] ELSE ""

\* format_question_text, were the conditional laid out like the other tenses
format_question_text_marker_first(person, verb, tense) ==
    MarkerOf(tense) \o " " \o lower(person) \o " (" \o verb \o ") [...]"

format_question_text(person, verb, tense) ==
    LET marker == MarkerOf(tense)
        person_lower == lower(person)
    IN  IF tense = "conditional"
        THEN person_lower \o " (" \o verb \o ") [...] " \o marker
        ELSE marker \o " " \o person_lower \o " (" \o verb \o ") [...]"

format_context(person, verb, tense) ==
    "Conjugate '" \o verb \o "' in the " \o tense \o " tense for '" \o person \o "'"

-----------------------------------------------------------------------------
(* main.py: the two question variants                                      *)

\* check, were the two answers compared as they are
check_regular_exact(correct_ans, submitted_ans) == correct_ans = submitted_ans

\* check of create_tense_question_regular
check_regular(correct_ans, submitted_ans) ==
    strip(lower(correct_ans)) = strip(lower(submitted_ans))

\* check of create_tense_question_irregular
check_irregular(correct_ans, submitted_ans) ==
    strip(lower(correct_ans)) = strip(lower(submitted_ans))

\* correct of create_tense_question_regular
correct_regular(tense, seed) == conjugate(seed[1], tense, seed[2])

\* correct of create_tense_question_irregular
correct_irregular(tense, seed) == conjugate(seed[1], tense, seed[2])

\* ask of both variants
ask(tense, seed) == [text |-> format_question_text(seed[2], seed[1], tense), type |-> "fill"]

-----------------------------------------------------------------------------
(* State machine                                                           *)

NoCall == [op |-> "none"]

Init ==
    /\ verb_data = VerbData
    /\ tense_markers = TENSE_MARKERS
    /\ last = NoCall

\* arguments a caller may pass: the known values, and values outside the known sets
VerbInputs == Range(VD_ALL_VERBS) \cup {"cantar", "xyz"}

TenseInputs == Range(VD_TENSES) \cup {"pluperfect"}

PersonInputs == Range(VD_PERSONS) \cup {"Vos"}

\* answers a player may submit to a question whose expected answer is ans
RECURSIVE Blanks(_)
Blanks(n) == IF n = 0 THEN "" ELSE " " \o Blanks(n - 1)

Pads == {Blanks(n) : n \in 0..MaxPad}

UpperChar(c) ==
    IF \E i \in 1..Len(LowerChars) : Char(LowerChars, i) = c
    THEN Char(UpperChars, CHOOSE i \in 1..Len(LowerChars) : Char(LowerChars, i) = c)
    ELSE c

RECURSIVE Upper(_)
Upper(s) == IF s = "" THEN "" ELSE UpperChar(Char(s, 1)) \o Upper(Tail(s))

Capitalized(s) == IF s = "" THEN "" ELSE UpperChar(Char(s, 1)) \o Tail(s)

Accented == "áéíóúü"

Plain == "aeiouu"

PlainChar(c) ==
    IF \E i \in 1..Len(Accented) : Char(Accented, i) = c
    THEN Char(Plain, CHOOSE i \in 1..Len(Accented) : Char(Accented, i) = c)
    ELSE c

RECURSIVE Unaccent(_)
Unaccent(s) == IF s = "" THEN "" ELSE PlainChar(Char(s, 1)) \o Unaccent(Tail(s))

InnerBlank(s) == IF Len(s) < 2 THEN s ELSE Char(s, 1) \o " " \o Tail(s)

Recased(ans) == {ans, Upper(ans), Capitalized(ans)}

Padded(ans) == {l \o b \o r : l \in Pads, r \in Pads, b \in Recased(ans)} \cup {"\t" \o ans \o "\n"}

Submissions(ans) == Padded(ans) \cup {InnerBlank(ans), Unaccent(ans), ans \o "s", ""}

Idle == last = NoCall

\* Conjugate, were the override popped from its dict instead of read
Conjugate_popping(c, verb, tense, person) ==
    /\ Idle
    /\ last' = [op |-> "conjugate", caller |-> c, verb |-> verb, tense |-> tense,
                person |-> person, out |-> conjugate(verb, tense, person)]
    /\ verb_data' =
          IF /\ verb \in Range(ALL_VERBS)
             /\ HasKey(IRREGULAR_OVERRIDES, verb)
             /\ HasKey(IRREGULAR_OVERRIDES[verb], tense)
             /\ HasKey(IRREGULAR_OVERRIDES[verb][tense], person)
          THEN [verb_data EXCEPT !.IRREGULAR_OVERRIDES[verb][tense] =
                   [p \in DOMAIN @ \ {person} |-> @[p]]]
          ELSE verb_data
    /\ UNCHANGED tense_markers

Conjugate(c, verb, tense, person) ==
    /\ Idle
    /\ last' = [op |-> "conjugate", caller |-> c, verb |-> verb, tense |-> tense,
                person |-> person, out |-> conjugate(verb, tense, person)]
    /\ UNCHANGED tables

GetConjugationTable(c, verb, tense) ==
    /\ Idle
    /\ last' = [op |-> "get_conjugation_table", caller |-> c, verb |-> verb,
                tense |-> tense, out |-> get_conjugation_table(verb, tense)]
    /\ UNCHANGED tables

FormatQuestionText(c, person, verb, tense) ==
    /\ Idle
    /\ last' = [op |-> "format_question_text", caller |-> c, verb |-> verb,
                tense |-> tense, person |-> person,
                out |-> Return(format_question_text(person, verb, tense))]
    /\ UNCHANGED tables

FormatContext(c, person, verb, tense) ==
    /\ Idle
    /\ last' = [op |-> "format_context", caller |-> c, verb |-> verb,
                tense |-> tense, person |-> person,
                out |-> Return(format_context(person, verb, tense))]
    /\ UNCHANGED tables

\* a question of the "regular verbs" category of the quiz of `tense`: get_seed, then ask
AskRegular(c, tense) ==
    /\ Idle
    /\ \E verb \in Range(REGULAR_VERBS), person \in Range(PERSONS) :
          last' = [op |-> "ask_regular", caller |-> c, verb |-> verb, tense |-> tense,
                   person |-> person, question |-> ask(tense, <<verb, person>>)]
    /\ UNCHANGED tables

\* a question of the "irregular verbs" category of the quiz of `tense`
AskIrregular(c, tense) ==
    /\ Idle
    /\ \E verb \in Range(IRREGULAR_VERBS), person \in Range(PERSONS) :
          last' = [op |-> "ask_irregular", caller |-> c, verb |-> verb, tense |-> tense,
                   person |-> person, question |-> ask(tense, <<verb, person>>)]
    /\ UNCHANGED tables

\* the player's answer to a "regular verbs" question: correct, then check
AnswerRegular ==
    /\ last.op = "ask_regular"
    /\ LET correct_ans == correct_regular(last.tense, <<last.verb, last.person>>)
       IN  \E submitted \in (IF Raised(correct_ans) THEN {""} ELSE Submissions(correct_ans.val)) :
              last' = [op |-> "check_regular", caller |-> last.caller, verb |-> last.verb,
                       tense |-> last.tense, person |-> last.person,
                       out |-> correct_ans, submitted |-> submitted,
                       accepted |-> IF Raised(correct_ans) THEN FALSE
                                    ELSE check_regular(correct_ans.val, submitted)]
    /\ UNCHANGED tables

\* the player's answer to an "irregular verbs" question
AnswerIrregular ==
    /\ last.op = "ask_irregular"
    /\ LET correct_ans == correct_irregular(last.tense, <<last.verb, last.person>>)
       IN  \E submitted \in (IF Raised(correct_ans) THEN {""} ELSE Submissions(correct_ans.val)) :
              last' = [op |-> "check_irregular", caller |-> last.caller, verb |-> last.verb,
                       tense |-> last.tense, person |-> last.person,
                       out |-> correct_ans, submitted |-> submitted,
                       accepted |-> IF Raised(correct_ans) THEN FALSE
                                    ELSE check_irregular(correct_ans.val, submitted)]
    /\ UNCHANGED tables

\* the caller has the outcome (a value or an exception) and may call again
Resume ==
    /\ last.op \notin {"none", "ask_regular", "ask_irregular"}
    /\ last' = NoCall
    /\ UNCHANGED tables

Next ==
    \/ \E c \in Callers, verb \in VerbInputs, tense \in TenseInputs, person \in PersonInputs :
          Conjugate(c, verb, tense, person)
    \/ \E c \in Callers, verb \in VerbInputs, tense \in TenseInputs :
          GetConjugationTable(c, verb, tense)
    \/ \E c \in Callers, verb \in VerbInputs, tense \in TenseInputs, person \in PersonInputs :
          FormatQuestionText(c, person, verb, tense)
    \/ \E c \in Callers, verb \in VerbInputs, tense \in TenseInputs, person \in PersonInputs :
          FormatContext(c, person, verb, tense)
    \/ \E c \in Callers, tense \in Range(TENSES) : AskRegular(c, tense)
    \/ \E c \in Callers, tense \in Range(TENSES) : AskIrregular(c, tense)
    \/ AnswerRegular
    \/ AnswerIrregular
    \/ Resume

Spec == Init /\ [][Next]_vars

-----------------------------------------------------------------------------
(* Vocabulary of the properties                                            *)

KnownVerb(verb) == verb \in Range(ALL_VERBS)

KnownTense(tense) == tense \in Range(TENSES)

KnownPerson(person) == person \in Range(PERSONS)

HasOverride(verb, tense, person) ==
    /\ HasKey(IRREGULAR_OVERRIDES, verb)
    /\ HasKey(IRREGULAR_OVERRIDES[verb], tense)
    /\ HasKey(IRREGULAR_OVERRIDES[verb][tense], person)

\* the final two characters of an infinitive
EndingClass(verb) == SubSeq(verb, Len(verb) - 1, Len(verb))

SuffixTable(ending) ==
    CASE ending = "ar" -> REGULAR_ENDINGS_AR
      [] ending = "er" -> REGULAR_ENDINGS_ER
      [] ending = "ir" -> REGULAR_ENDINGS_IR

\* the whole infinitive for the full-infinitive tenses, the stem for the others
Base(verb, tense) ==
    IF tense \in {"future", "conditional"} THEN verb ELSE SubSeq(verb, 1, Len(verb) - 2)

StartsWith(s, prefix) == Len(s) >= Len(prefix) /\ SubSeq(s, 1, Len(prefix)) = prefix

\* the error kind of an outcome, read off the exception and its message
ErrorKind(o) ==
    CASE o.exc = "none" -> "none"
      [] o.exc = "ValueError" /\ StartsWith(o.val, "Unknown verb: ") -> "UnknownVerb"
      [] o.exc = "ValueError" /\ StartsWith(o.val, "Unknown tense: ") -> "UnknownTense"
      [] o.exc = "ValueError" /\ StartsWith(o.val, "Unknown person: ") -> "UnknownPerson"
      [] o.exc = "ValueError" /\ StartsWith(o.val, "Unknown verb ending: ") -> "UnsupportedEnding"
      [] OTHER -> "generic"

\* the first position of sub in s, 0 when it does not occur
Find(sub, s) ==
    LET at == {i \in 1..(Len(s) - Len(sub) + 1) : SubSeq(s, i, i + Len(sub) - 1) = sub}
    IN  IF at = {} THEN 0 ELSE CHOOSE i \in at : \A j \in at : i <= j

Count(sub, s) ==
    Cardinality({i \in 1..(Len(s) - Len(sub) + 1) : SubSeq(s, i, i + Len(sub) - 1) = sub})

IsConjugate == last.op = "conjugate"

-----------------------------------------------------------------------------
(* C1: for a known verb with an override entry at the exact (tense, person) *)
(* cell, conjugate returns exactly the literal stored in that cell.         *)
OverrideReturnsLiteral ==
    IsConjugate /\ KnownVerb(last.verb) /\ HasOverride(last.verb, last.tense, last.person)
        => last.out = Return(IRREGULAR_OVERRIDES[last.verb][last.tense][last.person])

\* the override of a full-infinitive tense wins over "tener" + "emos"
OverrideReturnsLiteral_Witness ==
    /\ IsConjugate
    /\ last.verb = "tener" /\ last.tense = "future" /\ last.person = "Nosotros"
    /\ HasOverride(last.verb, last.tense, last.person)
    /\ last.out = Return("tendremos")

(* C2: for a known verb, tense and person with no override at the cell and  *)
(* an ending in {ar, er, ir}, conjugate returns base + suffix, the base     *)
(* being the whole infinitive for future and conditional and the infinitive *)
(* minus its final two characters otherwise, the suffix table chosen by the *)
(* ending alone; also for a verb with overrides in other cells.             *)
RegularDerivation ==
    /\ IsConjugate
    /\ KnownVerb(last.verb) /\ KnownTense(last.tense) /\ KnownPerson(last.person)
    /\ ~HasOverride(last.verb, last.tense, last.person)
    /\ EndingClass(last.verb) \in {"ar", "er", "ir"}
    => last.out = Return(Base(last.verb, last.tense)
                         \o SuffixTable(EndingClass(last.verb))[last.tense][last.person])

\* an irregular verb in a cell it does not override, in a full-infinitive tense
RegularDerivation_Witness ==
    /\ IsConjugate
    /\ last.verb = "ir" /\ last.tense = "future" /\ last.person = "Yo"
    /\ HasKey(IRREGULAR_OVERRIDES, last.verb)
    /\ ~HasOverride(last.verb, last.tense, last.person)
    /\ last.out = Return("iré")

(* C3: for every known verb, tense and person, conjugate returns a          *)
(* non-empty string and raises nothing.                                     *)
TotalOnKnownGrid ==
    IsConjugate /\ KnownVerb(last.verb) /\ KnownTense(last.tense) /\ KnownPerson(last.person)
        => ~Raised(last.out) /\ Len(last.out.val) > 0

\* the regular path of an -ir verb
TotalOnKnownGrid_Witness ==
    /\ IsConjugate
    /\ last.verb = "vivir" /\ last.tense = "present" /\ last.person = "Nosotros"
    /\ last.out = Return("vivimos")

(* C4: conjugate returns no conjugated form for a request whose verb, tense *)
(* or person is outside the known sets: the call raises, whatever the other *)
(* two arguments are, also for a verb with override entries.                *)
InvalidRequestRaises ==
    IsConjugate /\ ~(KnownVerb(last.verb) /\ KnownTense(last.tense) /\ KnownPerson(last.person))
        => Raised(last.out)

\* a verb with overrides in the tense asked for, and a person outside the known set
InvalidRequestRaises_Witness ==
    /\ IsConjugate
    /\ last.verb = "tener" /\ last.tense = "preterite" /\ ~KnownPerson(last.person)
    /\ HasKey(IRREGULAR_OVERRIDES[last.verb], last.tense)
    /\ Raised(last.out)

(* C5: an invalid verb, tense or person raises the error of its own kind    *)
(* (UnknownVerb, UnknownTense, UnknownPerson), never a generic failure, and *)
(* with several invalid arguments the kind is that of the first invalid one *)
(* in the order verb, tense, person.                                        *)
ErrorKindByFirstInvalid ==
    IsConjugate =>
        /\ ~KnownVerb(last.verb) => ErrorKind(last.out) = "UnknownVerb"
        /\ KnownVerb(last.verb) /\ ~KnownTense(last.tense)
              => ErrorKind(last.out) = "UnknownTense"
        /\ KnownVerb(last.verb) /\ KnownTense(last.tense) /\ ~KnownPerson(last.person)
              => ErrorKind(last.out) = "UnknownPerson"

\* a known verb with tense and person both invalid: the tense is reported
ErrorKindByFirstInvalid_Witness ==
    /\ IsConjugate
    /\ KnownVerb(last.verb) /\ ~KnownTense(last.tense) /\ ~KnownPerson(last.person)
    /\ last.out = Raise("ValueError", "Unknown tense: pluperfect")

(* C7: get_conjugation_table(verb, tense) returns a mapping whose keys are  *)
(* exactly the known persons and whose value at each person p is            *)
(* conjugate(verb, tense, p); it raises exactly when conjugate raises for   *)
(* some person, with that call's error, and returns no partial table.       *)
TableIsFoldOfConjugate ==
    last.op = "get_conjugation_table" =>
        LET cell(p) == conjugate(last.verb, last.tense, p)
            failing == {p \in Range(PERSONS) : Raised(cell(p))}
        IN  /\ Raised(last.out) <=> failing # {}
            /\ Raised(last.out) => \E p \in failing : last.out = cell(p)
            /\ ~Raised(last.out) =>
                  /\ DOMAIN last.out.val = Range(PERSONS)
                  /\ \A p \in Range(PERSONS) : last.out.val[p] = cell(p).val

\* a table mixing overridden cells and a regular one
TableIsFoldOfConjugate_Witness ==
    /\ last.op = "get_conjugation_table"
    /\ last.verb = "tener" /\ last.tense = "present"
    /\ ~Raised(last.out)
    /\ last.out.val = Forms("tengo", "tienes", "tenemos")

\* the persons of the inputs, lower-cased
LowerCased(person) ==
    CASE person = "Yo" -> "yo"
      [] person = "Tú" -> "tú"
      [] person = "Nosotros" -> "nosotros"
      [] person = "Vos" -> "vos"

(* C8: format_question_text puts the tense's marker word after the blank    *)
(* for the conditional and before the blank and the person for every other  *)
(* tense; in both layouts the person is lower-cased, the verb stands in     *)
(* parentheses, and exactly one blank "[...]" follows the verb.             *)
QuestionLayout ==
    last.op = "format_question_text" =>
        LET text == last.out.val
            blank == Find("[...]", text)
            verb == Find("(" \o last.verb \o ")", text)
            person == Find(LowerCased(last.person) \o " (", text)
            marker == Find(tense_markers[last.tense], text)
        IN  /\ Count("[...]", text) = 1
            /\ 0 < person /\ person < verb /\ verb < blank
            /\ person + Len(LowerCased(last.person)) + 1 = verb
            /\ HasKey(tense_markers, last.tense) =>
                  IF last.tense = "conditional"
                  THEN blank < marker /\ Count(tense_markers[last.tense], text) = 1
                  ELSE 0 < marker /\ marker < person

\* the conditional layout, with a person that has an upper-case letter
QuestionLayout_Witness ==
    /\ last.op = "format_question_text"
    /\ last.tense = "conditional" /\ last.person = "Tú" /\ last.verb = "tener"
    /\ last.out.val = "tú (tener) [...] si..."

\* s without its leading and trailing whitespace, by position
Core(s) ==
    LET solid == {i \in 1..Len(s) : Char(s, i) \notin Whitespace}
    IN  IF solid = {} THEN ""
        ELSE SubSeq(s, CHOOSE i \in solid : \A j \in solid : i <= j,
                       CHOOSE i \in solid : \A j \in solid : j <= i)

SameAnswer(a, b) == lower(Core(a)) = lower(Core(b))

IsCheck == last.op \in {"check_regular", "check_irregular"}

CheckOf(a, b) ==
    IF last.op = "check_regular" THEN check_regular(a, b) ELSE check_irregular(a, b)

(* C9: the answer check accepts a submitted answer if and only if it equals *)
(* the expected answer after lower-casing and trimming both; the relation   *)
(* is reflexive and symmetric, ignores case and surrounding whitespace, and *)
(* ignores neither interior whitespace nor accents. Both question variants  *)
(* use the same check and the same conjugate(verb, tense, person) call.     *)
AnswerCheck ==
    IsCheck /\ ~Raised(last.out) =>
        LET ans == last.out.val
            sub == last.submitted
        IN  /\ last.out = conjugate(last.verb, last.tense, last.person)
            /\ last.accepted <=> SameAnswer(ans, sub)
            /\ sub \in Padded(ans) => last.accepted
            /\ sub = InnerBlank(ans) => ~last.accepted
            /\ sub = Unaccent(ans) /\ sub # ans => ~last.accepted
            /\ CheckOf(sub, ans) = last.accepted
            /\ CheckOf(sub, sub) /\ CheckOf(ans, ans)
            /\ check_regular(ans, sub) = check_irregular(ans, sub)

\* an irregular form with an accent, submitted in capitals between blanks
AnswerCheck_Witness ==
    /\ last.op = "check_irregular"
    /\ last.out = Return("tendríamos")
    /\ last.submitted = " TENDRÍAMOS "
    /\ last.accepted

\* asking again what was just asked gives the outcome just given
Repeatable ==
    IsConjugate => conjugate(last.verb, last.tense, last.person) = last.out

(* C10: no call of conjugate, get_conjugation_table, format_question_text   *)
(* or format_context, by any caller and whether it returns or raises,       *)
(* changes the static tables; so a conjugate call repeated with the same    *)
(* arguments has the same outcome at every point of every sequence.         *)
TablesReadOnly == [][tables' = tables /\ Repeatable']_vars

\* the second caller's call has raised, and the tables are those loaded at start
TablesReadOnly_Witness ==
    /\ IsConjugate /\ last.caller = 2
    /\ Raised(last.out)
    /\ tables = <<VerbData, TENSE_MARKERS>>

=============================================================================
